---- MODULE Spec2Model ----
(***************************************************************************)
(* Model of the landscape-client CPU profiler's analysis code:             *)
(*   plot.py                   the log loaders, the cumulative CPU-time    *)
(*                             reconstruction and the aligned table        *)
(*   calculate_cpu_seconds.py  the cpu_usage loader, the trapezoid         *)
(*                             integrator and the command line             *)
(*                                                                         *)
(* A log line is modelled after line.strip() and line.split(","): it is    *)
(* the sequence of its comma separated fields.  A field is a token; the    *)
(* token kinds are the ones Python's float() and int() tell apart.         *)
(* A Python float is a record [k, v]: k = "fin" with the integer v, or     *)
(* one of "nan", "inf", "ninf".  Rounding error of binary floating point   *)
(* is not modelled: finite values are exact integers.                      *)
(***************************************************************************)
EXTENDS Integers, Sequences, FiniteSets, TLC

(***************************************************************************)
(* Bounds of the model.                                                    *)
(***************************************************************************)
MaxLines == 3
MaxPoints == 3
MaxLogLines == 2
MaxTableLines == 5
MaxIterations == 2
MaxElapsed == 2
MaxRetries == 4

(***************************************************************************)
(* Python floats.                                                          *)
(***************************************************************************)
F(n) == [k |-> "fin", v |-> n]
NaN == [k |-> "nan", v |-> 0]
PInf == [k |-> "inf", v |-> 0]
NInf == [k |-> "ninf", v |-> 0]

IsFinite(a) == a.k = "fin"
IsNaN(a) == a.k = "nan"

\* a < b on floats: every comparison with NaN is False
FLt(a, b) ==
    CASE IsNaN(a) \/ IsNaN(b) -> FALSE
      [] a.k = "ninf" -> b.k # "ninf"
      [] a.k = "inf" -> FALSE
      [] b.k = "ninf" -> FALSE
      [] b.k = "inf" -> TRUE
      [] OTHER -> a.v < b.v

\* a == b on floats: NaN equals nothing
FEq(a, b) == ~IsNaN(a) /\ ~IsNaN(b) /\ a = b

FLe(a, b) == FLt(a, b) \/ FEq(a, b)
FGt(a, b) == FLt(b, a)

\* a + b on floats
FAdd(a, b) ==
    CASE IsNaN(a) \/ IsNaN(b) -> NaN
      [] a.k = "inf" -> IF b.k = "ninf" THEN NaN ELSE PInf
      [] a.k = "ninf" -> IF b.k = "inf" THEN NaN ELSE NInf
      [] b.k = "inf" -> PInf
      [] b.k = "ninf" -> NInf
      [] OTHER -> F(a.v + b.v)

FNeg(a) ==
    CASE a.k = "inf" -> NInf
      [] a.k = "ninf" -> PInf
      [] a.k = "nan" -> NaN
      [] OTHER -> F(0 - a.v)

FSub(a, b) == FAdd(a, FNeg(b))

\* sign of a non-NaN float: -1, 0 or 1
FSign(a) ==
    CASE a.k = "inf" -> 1
      [] a.k = "ninf" -> -1
      [] OTHER -> IF a.v > 0 THEN 1 ELSE IF a.v < 0 THEN -1 ELSE 0

\* a * b on floats
FMul(a, b) ==
    CASE IsNaN(a) \/ IsNaN(b) -> NaN
      [] IsFinite(a) /\ IsFinite(b) -> F(a.v * b.v)
      [] FSign(a) * FSign(b) = 0 -> NaN
      [] FSign(a) * FSign(b) > 0 -> PInf
      [] OTHER -> NInf

\* f[1] + ... + f[n], added from the left starting at 0
RECURSIVE FSum(_, _)
FSum(f, n) == IF n = 0 THEN F(0) ELSE FAdd(FSum(f, n - 1), f[n])

\* keeps the latest value instead of the greatest
PyLast(a, b) == b

\* Python's max(a, b): the first argument unless the second is greater
PyMax(a, b) == IF FGt(b, a) THEN b ELSE a

(***************************************************************************)
(* Tokens and the conversions float() and int().                           *)
(***************************************************************************)
Num(n) == [k |-> "int", v |-> n]
TokNaN == [k |-> "nan", v |-> 0]
TokInf == [k |-> "inf", v |-> 0]
TokNInf == [k |-> "ninf", v |-> 0]
TokJunk == [k |-> "junk", v |-> 0]
TokEmpty == [k |-> "empty", v |-> 0]
TokSentinel == [k |-> "sentinel", v |-> 0]

Err == [k |-> "err", v |-> 0]
IsErr(x) == x.k = "err"

\* float(s): ValueError (Err) on text that is no float literal
ParseFloat(tok) ==
    CASE tok.k = "int" -> F(tok.v)
      [] tok.k = "nan" -> NaN
      [] tok.k = "inf" -> PInf
      [] tok.k = "ninf" -> NInf
      [] OTHER -> Err

\* int(s): ValueError (Err) on everything but an integer literal
ParseInt(tok) == IF tok.k = "int" THEN tok.v ELSE -1
IntFails(tok) == tok.k # "int"

\* the line is empty after strip(): "".split(",") is [""]
BlankLine == <<TokEmpty>>
IsBlank(line) == line = BlankLine
\* the line is the bare empty-result token "(0rows)"
SentinelLine == <<TokSentinel>>

(***************************************************************************)
(* The scalar loaders.  acc is the pair of lists a loader appends to; a    *)
(* ..._line operator is one pass of the loader's "for line in f" body.     *)
(***************************************************************************)
EmptyAcc == [timestamps |-> <<>>, values |-> <<>>]

\* plot.py load_single_value_file: the timestamp is appended before the
\* value field is looked at, so an exception raised by parts[1] or by its
\* conversion leaves the timestamp in the list
single_value_line(acc, line) ==
    IF IsBlank(line) THEN acc
    ELSE IF IsErr(ParseFloat(line[1])) THEN acc
    ELSE IF Len(line) < 2 \/ IsErr(ParseFloat(line[2]))
         THEN [acc EXCEPT !.timestamps = Append(@, ParseFloat(line[1]))]
         ELSE [timestamps |-> Append(acc.timestamps, ParseFloat(line[1])),
               values |-> Append(acc.values, ParseFloat(line[2]))]

\* sum(float(n.strip()) for n in parts[1:]): starts from 0, Err as soon as
\* one field fails to convert
RECURSIVE SumFields(_, _)
SumFields(line, i) ==
    IF i > Len(line) THEN F(0)
    ELSE IF IsErr(ParseFloat(line[i])) THEN Err
    ELSE LET rest == SumFields(line, i + 1)
         IN IF IsErr(rest) THEN Err ELSE FAdd(ParseFloat(line[i]), rest)

\* plot.py load_comma_delimited_file
comma_delimited_line(acc, line) ==
    IF IsBlank(line) THEN acc
    ELSE IF line = SentinelLine THEN acc
    ELSE IF IsErr(ParseFloat(line[1])) \/ IsErr(SumFields(line, 2)) THEN acc
    ELSE [timestamps |-> Append(acc.timestamps, ParseFloat(line[1])),
          values |-> Append(acc.values, SumFields(line, 2))]

\* calculate_cpu_seconds.py load_cpu_usage_data: both fields are converted
\* before anything is appended
CpuUsageLineFails(line) ==
    Len(line) < 2 \/ IsErr(ParseFloat(line[1])) \/ IsErr(ParseFloat(line[2]))

cpu_usage_line(acc, line) ==
    IF IsBlank(line) THEN acc
    ELSE IF CpuUsageLineFails(line) THEN acc
    ELSE [timestamps |-> Append(acc.timestamps, ParseFloat(line[1])),
          values |-> Append(acc.values, ParseFloat(line[2]))]

\* the "Warning: Skipping malformed line" written to stderr
CpuUsageWarns(line) == ~IsBlank(line) /\ CpuUsageLineFails(line)

RECURSIVE load_single_value_file(_)
load_single_value_file(file) ==
    IF file = <<>> THEN EmptyAcc
    ELSE single_value_line(load_single_value_file(SubSeq(file, 1, Len(file) - 1)),
                           file[Len(file)])

RECURSIVE load_comma_delimited_file(_)
load_comma_delimited_file(file) ==
    IF file = <<>> THEN EmptyAcc
    ELSE comma_delimited_line(load_comma_delimited_file(SubSeq(file, 1, Len(file) - 1)),
                              file[Len(file)])

RECURSIVE load_cpu_usage_data(_)
load_cpu_usage_data(file) ==
    IF file = <<>> THEN EmptyAcc
    ELSE cpu_usage_line(load_cpu_usage_data(SubSeq(file, 1, Len(file) - 1)),
                        file[Len(file)])

(***************************************************************************)
(* plot.py load_cpu_time_file.  pid_data is the defaultdict, kept as the   *)
(* sequence of its entries in insertion order.                             *)
(***************************************************************************)
CpuTimeLineFails(line) ==
    \/ Len(line) < 4
    \/ IsErr(ParseFloat(line[1]))
    \/ IntFails(line[2])
    \/ IsErr(ParseFloat(line[3]))
    \/ IsErr(ParseFloat(line[4]))

PidIndex(pid_data, pid) ==
    IF \E i \in 1..Len(pid_data) : pid_data[i].pid = pid
    THEN CHOOSE i \in 1..Len(pid_data) : pid_data[i].pid = pid
    ELSE 0

\* lines 75-86: one parsed sample is appended to its pid's two lists
cpu_time_line(pid_data, line) ==
    IF IsBlank(line) \/ CpuTimeLineFails(line) THEN pid_data
    ELSE LET timestamp == ParseFloat(line[1])
             pid == ParseInt(line[2])
             total_cpu == FAdd(ParseFloat(line[3]), ParseFloat(line[4]))
             i == PidIndex(pid_data, pid)
         IN IF i = 0
            THEN Append(pid_data, [pid |-> pid, timestamps |-> <<timestamp>>,
                                   total_cpu |-> <<total_cpu>>])
            ELSE [pid_data EXCEPT ![i] =
                      [pid |-> pid, timestamps |-> Append(@.timestamps, timestamp),
                       total_cpu |-> Append(@.total_cpu, total_cpu)]]

RECURSIVE ParseCpuTime(_)
ParseCpuTime(file) ==
    IF file = <<>> THEN <<>>
    ELSE cpu_time_line(ParseCpuTime(SubSeq(file, 1, Len(file) - 1)), file[Len(file)])

\* lines 101-104: the running maximum of one pid over its samples with
\* pid_ts <= ts, starting from 0.0
RECURSIVE MaxCpuUpTo(_, _, _)
MaxCpuUpTo(pid_info, ts, n) ==
    IF n = 0 THEN F(0)
    ELSE LET before == MaxCpuUpTo(pid_info, ts, n - 1)
         IN IF FLe(pid_info.timestamps[n], ts)
            THEN PyMax(before, pid_info.total_cpu[n])
            ELSE before

\* looks only at the samples taken exactly at ts: a pid that has stopped
\* reporting drops out of the total
max_cpu_at(pid_info, ts) ==
    LET now == {pid_info.total_cpu[j] :
                   j \in {k \in 1..Len(pid_info.timestamps) :
                            FEq(pid_info.timestamps[k], ts)
                            /\ FGt(pid_info.total_cpu[k], F(0))}}
    IN IF now = {} THEN F(0) ELSE CHOOSE m \in now : \A x \in now : FLe(x, m)

max_cpu_for_pid(pid_info, ts) == MaxCpuUpTo(pid_info, ts, Len(pid_info.timestamps))

\* lines 98-105: total over the pids, in dict order
RECURSIVE TotalUpTo(_, _, _)
TotalUpTo(pid_data, ts, n) ==
    IF n = 0 THEN F(0)
    ELSE FAdd(TotalUpTo(pid_data, ts, n - 1), max_cpu_for_pid(pid_data[n], ts))

cumulative_total(pid_data, ts) == TotalUpTo(pid_data, ts, Len(pid_data))

\* lines 89-91: the set all_timestamps.  Equal floats are one element; every
\* NaN is an element of its own (NaN != NaN, and each float("nan") is a new
\* object), so the set is kept as its non-NaN members and a count of NaNs.
TimestampSlots(pid_data) ==
    UNION {{<<i, j>> : j \in 1..Len(pid_data[i].timestamps)} : i \in 1..Len(pid_data)}

all_timestamps(pid_data) ==
    {pid_data[p[1]].timestamps[p[2]] :
        p \in {q \in TimestampSlots(pid_data) :
                 ~IsNaN(pid_data[q[1]].timestamps[q[2]])}}

NaNTimestampCount(pid_data) ==
    Cardinality({q \in TimestampSlots(pid_data) :
                   IsNaN(pid_data[q[1]].timestamps[q[2]])})

RECURSIVE SortedAsc(_)
SortedAsc(S) ==
    IF S = {} THEN <<>>
    ELSE LET m == CHOOSE x \in S : \A y \in S : FLe(x, y)
         IN <<m>> \o SortedAsc(S \ {m})

\* line 93: sorted(all_timestamps).  Without NaN the result is the ascending
\* list.  With NaN every "<" involving it is False and the set's iteration
\* order depends on object hashes, so the result is some arrangement of the
\* elements: all arrangements are allowed here.
SortedOutcomes(S, nNaN) ==
    IF nNaN = 0 THEN {SortedAsc(S)}
    ELSE LET n == Cardinality(S) + nNaN
         IN {s \in [1..n -> S \cup {NaN}] :
                /\ \A x \in S : Cardinality({i \in 1..n : s[i] = x}) = 1
                /\ Cardinality({i \in 1..n : s[i] = NaN}) = nNaN}

\* lines 96-107: one cumulative value per emitted timestamp
CumulativeSeries(pid_data, timestamps) ==
    [i \in 1..Len(timestamps) |-> cumulative_total(pid_data, timestamps[i])]

(***************************************************************************)
(* The lines the loaders are run on.                                       *)
(***************************************************************************)
\* cpu_usage.log, db_size.log, package_counts.log: well-formed pairs and
\* the malformed shapes the loaders have to cope with
ScalarLines ==
    {<<Num(t), Num(v)>> : t \in {1, 2}, v \in {0, 7}}
    \cup {BlankLine, SentinelLine,
          <<Num(1)>>, <<Num(1), TokEmpty>>, <<Num(1), TokJunk>>,
          <<TokJunk, Num(7)>>, <<Num(1), TokSentinel>>,
          <<Num(1), Num(7), Num(7)>>,
          <<Num(1), TokNaN>>, <<TokNaN, Num(7)>>,
          <<Num(2), TokInf>>, <<Num(2), TokNInf>>}

\* cpu_time.log: two pids whose counters rise, fall and go negative, the
\* restart scenario of pids 100 and 200, and malformed lines
ProcessLines ==
    {<<Num(t), Num(p), Num(u), Num(0)>> : t \in {1, 2}, p \in {100, 200}, u \in {-1, 1, 3}}
    \cup {<<Num(0), Num(100), Num(1), Num(0)>>,
          <<Num(5), Num(200), Num(2), Num(1)>>,
          <<Num(10), Num(200), Num(4), Num(1)>>}
    \cup {<<TokNaN, Num(100), Num(1), Num(0)>>,
          <<Num(1), Num(100), TokNaN, Num(0)>>,
          <<Num(2), Num(200), TokInf, Num(0)>>}
    \cup {BlankLine, <<Num(1)>>, <<Num(1), Num(100), Num(1)>>,
          <<TokJunk, Num(100), Num(1), Num(0)>>,
          <<Num(1), TokNaN, Num(1), Num(0)>>,
          <<Num(1), Num(100), Num(1), TokJunk>>,
          <<Num(1), Num(100), Num(1), Num(0), Num(9)>>}

(***************************************************************************)
(* State.                                                                  *)
(***************************************************************************)
VARIABLES
    loader,       \* which loader runs: "single", "comma", "usage", "cputime"
    file,         \* the lines read from the file so far
    timestamps,   \* the list timestamps of the running function
    values,       \* its list values / cpu_values / cumulative_cpu_time
    pid_data,     \* load_cpu_time_file's dictionary
    warnings,     \* lines load_cpu_usage_data has written to stderr
    pc,           \* where the running function stands
    cpu_seconds,  \* calculate_cpu_seconds' result, kept as twice its value
    error,        \* the exception that left the function, "" for none
    args,         \* main's parsed command line: results_dir and verbose
    fs,           \* the file system main looks at
    results_dir,  \* the directory main settled on
    stdout,       \* what main printed on standard output
    stderr,       \* what went to standard error
    exit_code,    \* the process' exit status, -1 while it runs
    logs,         \* the five log files of a results directory
    df,           \* the outcome of load_results_directory
    iterations,   \* profiling_config.iterations
    iteration,    \* the sampling loop's index i
    elapsed_seconds, \* the elapsed_seconds of each iteration begun so far
    futures,      \* for each iteration begun, the state of its five futures
    remote_logs,  \* the log files on the LXD instances
    pull_called,  \* pull_results has been called
    params_written, \* test_parameters.json has been written
    max_retries,  \* register_landscape_client's parameter
    attempt,      \* its loop index
    returncodes   \* the exit status of each landscape-config run so far

loadOnly == <<loader, file, pid_data>>
integOnly == <<cpu_seconds, error>>
mainOnly == <<args, fs, results_dir, stdout, stderr, exit_code>>
tableOnly == <<logs, df>>
loopOnly == <<iterations, iteration, elapsed_seconds, futures, remote_logs, pull_called,
              params_written>>
registerOnly == <<max_retries, attempt, returncodes>>
harnessOnly == <<loopOnly, registerOnly>>

vars == <<loader, file, timestamps, values, pid_data, warnings, pc, cpu_seconds,
          error, args, fs, results_dir, stdout, stderr, exit_code, logs, df,
          iterations, iteration, elapsed_seconds, futures, remote_logs, pull_called,
          params_written, max_retries, attempt, returncodes>>

\* the variables a specification does not use stay at these values
IdleLoad == loader = "none" /\ file = <<>> /\ pid_data = <<>>
IdleInteg == cpu_seconds = F(0) /\ error = ""
IdleMain ==
    /\ args = [results_dir |-> "none", verbose |-> FALSE]
    /\ fs = [root_exists |-> FALSE]
    /\ results_dir = "none"
    /\ stdout = <<>>
    /\ stderr = <<>>
    /\ exit_code = -1
IdleTable == logs = <<>> /\ df = [error |-> "idle"]
IdleLoop ==
    /\ iterations = 0
    /\ iteration = 0
    /\ elapsed_seconds = <<>>
    /\ futures = <<>>
    /\ remote_logs = <<>>
    /\ pull_called = FALSE
    /\ params_written = FALSE
IdleRegister == max_retries = 0 /\ attempt = -1 /\ returncodes = <<>>
IdleHarness == IdleLoop /\ IdleRegister

Loaders == {"single", "comma", "usage", "cputime"}

LoadInit ==
    /\ loader \in Loaders
    /\ file = <<>>
    /\ timestamps = <<>>
    /\ values = <<>>
    /\ pid_data = <<>>
    /\ warnings = 0
    /\ pc = "reading"
    /\ IdleInteg /\ IdleMain /\ IdleTable /\ IdleHarness

\* the for loop has another line to read
MoreLines == pc = "reading" /\ Len(file) < MaxLines

\* plot.py load_single_value_file, lines 17-25
LoadSingleValueLine ==
    /\ loader = "single" /\ MoreLines
    /\ \E line \in ScalarLines :
          LET acc == single_value_line([timestamps |-> timestamps, values |-> values], line)
          IN /\ file' = Append(file, line)
             /\ timestamps' = acc.timestamps
             /\ values' = acc.values
    /\ UNCHANGED <<harnessOnly, loader, pid_data, warnings, pc, integOnly, mainOnly, tableOnly>>

\* plot.py load_comma_delimited_file, lines 34-50
LoadCommaDelimitedLine ==
    /\ loader = "comma" /\ MoreLines
    /\ \E line \in ScalarLines :
          LET acc == comma_delimited_line([timestamps |-> timestamps, values |-> values], line)
          IN /\ file' = Append(file, line)
             /\ timestamps' = acc.timestamps
             /\ values' = acc.values
    /\ UNCHANGED <<harnessOnly, loader, pid_data, warnings, pc, integOnly, mainOnly, tableOnly>>

\* calculate_cpu_seconds.py load_cpu_usage_data, lines 20-33
LoadCpuUsageLine ==
    /\ loader = "usage" /\ MoreLines
    /\ \E line \in ScalarLines :
          LET acc == cpu_usage_line([timestamps |-> timestamps, values |-> values], line)
          IN /\ file' = Append(file, line)
             /\ timestamps' = acc.timestamps
             /\ values' = acc.values
             /\ warnings' = IF CpuUsageWarns(line) THEN warnings + 1 ELSE warnings
    /\ UNCHANGED <<harnessOnly, loader, pid_data, pc, integOnly, mainOnly, tableOnly>>

\* plot.py load_cpu_time_file, lines 70-86
LoadCpuTimeLine ==
    /\ loader = "cputime" /\ MoreLines
    /\ \E line \in ProcessLines :
          /\ file' = Append(file, line)
          /\ pid_data' = cpu_time_line(pid_data, line)
    /\ UNCHANGED <<harnessOnly, loader, timestamps, values, warnings, pc, integOnly, mainOnly, tableOnly>>

\* end of file in a scalar loader: return timestamps, values
ReturnSeries ==
    /\ loader \in {"single", "comma", "usage"} /\ pc = "reading"
    /\ pc' = "returned"
    /\ UNCHANGED <<harnessOnly, loader, file, timestamps, values, pid_data, warnings, integOnly, mainOnly, tableOnly>>

\* plot.py load_cpu_time_file, lines 88-109
ReturnCumulative ==
    /\ loader = "cputime" /\ pc = "reading"
    /\ \E sorted \in SortedOutcomes(all_timestamps(pid_data), NaNTimestampCount(pid_data)) :
          /\ timestamps' = sorted
          /\ values' = CumulativeSeries(pid_data, sorted)
    /\ pc' = "returned"
    /\ UNCHANGED <<harnessOnly, loader, file, pid_data, warnings, integOnly, mainOnly, tableOnly>>

LoadNext ==
    \/ LoadSingleValueLine
    \/ LoadCommaDelimitedLine
    \/ LoadCpuUsageLine
    \/ LoadCpuTimeLine
    \/ ReturnSeries
    \/ ReturnCumulative

SpecLoad == LoadInit /\ [][LoadNext]_vars

(***************************************************************************)
(* calculate_cpu_seconds.py calculate_cpu_seconds.  The result is kept as  *)
(* twice its value, so that the division by 2.0 stays within the integers. *)
(***************************************************************************)
\* a left-rectangle rule: the value at the right end of each interval is
\* left out
rectangle_twice(y, x) ==
    FSum([i \in 1..(Len(x) - 1) |-> FMul(FSub(x[i + 1], x[i]), FAdd(y[i], y[i]))],
         Len(x) - 1)

\* takes every interval by its width, whatever its direction, as sorting the
\* points by time first would
trapezoid_abs_twice(y, x) ==
    FSum([i \in 1..(Len(x) - 1) |->
             LET d == FSub(x[i + 1], x[i])
             IN FMul(IF FLt(d, F(0)) THEN FNeg(d) ELSE d, FAdd(y[i + 1], y[i]))],
         Len(x) - 1)

\* np.trapezoid(y, x): d = diff(x); (d * (y[1:] + y[:-1]) / 2.0).sum()
trapezoid_twice(y, x) ==
    FSum([i \in 1..(Len(x) - 1) |-> FMul(FSub(x[i + 1], x[i]), FAdd(y[i + 1], y[i]))],
         Len(x) - 1)

\* integrates without the check for two data points
integrate_unchecked(ts, cpu_values) ==
    [raised |-> FALSE, twice |-> trapezoid_twice(cpu_values, ts)]

\* accepts a single data point
at_least_one_point(ts, cpu_values) ==
    IF Len(ts) < 1
    THEN [raised |-> TRUE, twice |-> F(0)]
    ELSE [raised |-> FALSE, twice |-> trapezoid_twice(cpu_values, ts)]

\* lines 52-57
calculate_cpu_seconds(ts, cpu_values) ==
    IF Len(ts) < 2
    THEN [raised |-> TRUE, twice |-> F(0)]
    ELSE [raised |-> FALSE, twice |-> trapezoid_twice(cpu_values, ts)]

\* the points the integrator is run on
PointValues == {F(0), F(5), F(10)}

IntegInit ==
    /\ \E n \in 0..MaxPoints :
          /\ timestamps \in [1..n -> PointValues]
          /\ values \in [1..n -> PointValues]
    /\ pc = "called"
    /\ warnings = 0
    /\ IdleInteg /\ IdleLoad /\ IdleMain /\ IdleTable /\ IdleHarness

\* lines 52-53: fewer than 2 data points
RaiseInsufficient ==
    /\ pc = "called"
    /\ calculate_cpu_seconds(timestamps, values).raised
    /\ error' = "ValueError"
    /\ pc' = "raised"
    /\ UNCHANGED <<harnessOnly, timestamps, values, warnings, cpu_seconds, loadOnly, mainOnly, tableOnly>>

\* lines 55-57
Integrate ==
    /\ pc = "called"
    /\ ~calculate_cpu_seconds(timestamps, values).raised
    /\ cpu_seconds' = calculate_cpu_seconds(timestamps, values).twice
    /\ pc' = "returned"
    /\ UNCHANGED <<harnessOnly, timestamps, values, warnings, error, loadOnly, mainOnly, tableOnly>>

IntegNext == RaiseInsufficient \/ Integrate

SpecInteg == IntegInit /\ [][IntegNext]_vars

(***************************************************************************)
(* calculate_cpu_seconds.py main and get_most_recent_results_dir.          *)
(* fs is what the command finds on disk: whether results/ exists and, for  *)
(* each name in it, an entry that is absent, a plain file, or a directory  *)
(* with a modification time and a cpu_usage.log that is missing, cannot be *)
(* read (open() raises), or holds lines.                                   *)
(***************************************************************************)
EntryNames == {"a", "b"}
MTimes == {1, 2}

UsageLogLines ==
    {<<Num(0), Num(20)>>, <<Num(10), Num(20)>>, <<Num(1)>>, <<Num(1), TokNaN>>}

UsageLogContents == UNION {[1..n -> UsageLogLines] : n \in 0..MaxLogLines}

NoLog == [state |-> "missing", lines |-> <<>>]
UnreadableLog == [state |-> "unreadable", lines |-> <<>>]
Logs == {NoLog, UnreadableLog} \cup {[state |-> "ok", lines |-> c] : c \in UsageLogContents}

AbsentEntry == [kind |-> "absent", mtime |-> 0, log |-> NoLog]
FileEntry == [kind |-> "file", mtime |-> 0, log |-> NoLog]
\* a plain file modified after every directory
NewerFileEntry == [kind |-> "file", mtime |-> 3, log |-> NoLog]
Entries ==
    {AbsentEntry, FileEntry, NewerFileEntry}
    \cup {[kind |-> "dir", mtime |-> m, log |-> l] : m \in MTimes, l \in Logs}

\* every entry of results/, directory or not
entries_present(f) == {d \in EntryNames : f.entries[d].kind # "absent"}

\* [d for d in results_base.iterdir() if d.is_dir()]
subdirs(f) == {d \in EntryNames : f.entries[d].kind = "dir"}

\* get_most_recent_results_dir raises FileNotFoundError
NoRecentResultsDir(f) == ~f.root_exists \/ subdirs(f) = {}

\* max(subdirs, key=mtime): iterdir() yields in arbitrary order and max
\* keeps the first greatest, so any directory of greatest mtime can come out
get_most_recent_results_dir(f) ==
    {d \in subdirs(f) : \A e \in subdirs(f) : f.entries[e].mtime <= f.entries[d].mtime}

\* plot.py's copy of the selector, lines 248-263
plot_subdirs(f) == {d \in EntryNames : f.entries[d].kind = "dir"}

PlotNoRecentResultsDir(f) == ~f.root_exists \/ plot_subdirs(f) = {}

plot_get_most_recent_results_dir(f) ==
    {d \in plot_subdirs(f) :
        \A e \in plot_subdirs(f) : f.entries[e].mtime <= f.entries[d].mtime}

\* Path.exists() of the directory given on the command line
DirExists(f, d) == f.root_exists /\ f.entries[d].kind # "absent"

\* (results_dir / "cpu_usage.log").exists()
LogExists(f, d) ==
    DirExists(f, d) /\ f.entries[d].kind = "dir" /\ f.entries[d].log.state # "missing"

\* pc tells the program: calculate_cpu_seconds.py begins at "start", plot.py
\* (which has no --verbose) at "plot_start"
MainInit ==
    /\ args \in [results_dir : {"none"} \cup EntryNames, verbose : BOOLEAN]
    /\ \/ fs = [root_exists |-> FALSE, entries |-> [d \in EntryNames |-> AbsentEntry]]
       \/ fs \in [root_exists : {TRUE}, entries : [EntryNames -> Entries]]
    /\ results_dir = "none"
    /\ stdout = <<>>
    /\ stderr = <<>>
    /\ exit_code = -1
    /\ timestamps = <<>>
    /\ values = <<>>
    /\ warnings = 0
    /\ \/ pc = "start"
       \/ pc = "plot_start" /\ ~args.verbose
    /\ IdleInteg /\ IdleLoad /\ IdleTable /\ IdleHarness

\* lines 97-106: settle on the results directory
ResolveDir ==
    /\ pc = "start"
    /\ IF args.results_dir = "none"
       THEN IF NoRecentResultsDir(fs)
            THEN /\ stderr' = Append(stderr, "Traceback: FileNotFoundError")
                 /\ exit_code' = 1
                 /\ pc' = "exited"
                 /\ UNCHANGED <<results_dir, stdout>>
            ELSE /\ results_dir' \in get_most_recent_results_dir(fs)
                 /\ stdout' = IF args.verbose
                              THEN Append(stdout, "Using most recent results")
                              ELSE stdout
                 /\ pc' = "resolved"
                 /\ UNCHANGED <<stderr, exit_code>>
       ELSE IF DirExists(fs, args.results_dir)
            THEN /\ results_dir' = args.results_dir
                 /\ pc' = "resolved"
                 /\ UNCHANGED <<stdout, stderr, exit_code>>
            ELSE /\ stderr' = Append(stderr, "Error: Directory not found")
                 /\ exit_code' = 1
                 /\ pc' = "exited"
                 /\ UNCHANGED <<results_dir, stdout>>
    /\ UNCHANGED <<harnessOnly, args, fs, timestamps, values, warnings, integOnly, loadOnly, tableOnly>>

\* plot.py main, lines 277-284: the same choice, without a look at whether
\* a given directory exists; load_results_directory comes next
PlotResolveDir ==
    /\ pc = "plot_start"
    /\ IF args.results_dir = "none"
       THEN IF PlotNoRecentResultsDir(fs)
            THEN /\ stderr' = Append(stderr, "Traceback: FileNotFoundError")
                 /\ exit_code' = 1
                 /\ pc' = "exited"
                 /\ UNCHANGED <<results_dir, stdout>>
            ELSE /\ results_dir' \in plot_get_most_recent_results_dir(fs)
                 /\ stdout' = Append(stdout, "Using most recent results")
                 /\ pc' = "plot_resolved"
                 /\ UNCHANGED <<stderr, exit_code>>
       ELSE /\ results_dir' = args.results_dir
            /\ pc' = "plot_resolved"
            /\ UNCHANGED <<stdout, stderr, exit_code>>
    /\ UNCHANGED <<harnessOnly, args, fs, timestamps, values, warnings, integOnly, loadOnly, tableOnly>>

\* lines 108-112: the log file has to exist
CheckLogFile ==
    /\ pc = "resolved"
    /\ IF LogExists(fs, results_dir)
       THEN /\ pc' = "checked"
            /\ UNCHANGED <<stderr, exit_code>>
       ELSE /\ stderr' = Append(stderr, "Error: CPU usage file not found")
            /\ exit_code' = 1
            /\ pc' = "exited"
    /\ UNCHANGED <<harnessOnly, args, fs, results_dir, stdout, timestamps, values, warnings,
                   integOnly, loadOnly, tableOnly>>

\* lines 114-122: load the samples and refuse an empty series
LoadData ==
    /\ pc = "checked"
    /\ LET log == fs.entries[results_dir].log
           loaded == load_cpu_usage_data(log.lines)
           warned == Len(SelectSeq(log.lines, CpuUsageWarns))
       IN IF log.state = "unreadable"
          THEN /\ stderr' = Append(stderr, "Error loading CPU usage data")
               /\ exit_code' = 1
               /\ pc' = "exited"
               /\ UNCHANGED <<timestamps, values, warnings>>
          ELSE /\ timestamps' = loaded.timestamps
               /\ values' = loaded.values
               /\ warnings' = warned
               /\ IF Len(loaded.timestamps) = 0
                  THEN /\ stderr' = Append(stderr, "Error: No valid data points found")
                       /\ exit_code' = 1
                       /\ pc' = "exited"
                  ELSE /\ pc' = "loaded"
                       /\ UNCHANGED <<stderr, exit_code>>
    /\ UNCHANGED <<harnessOnly, args, fs, results_dir, stdout, integOnly, loadOnly, tableOnly>>

\* lines 124-129: integrate
Calculate ==
    /\ pc = "loaded"
    /\ LET r == calculate_cpu_seconds(timestamps, values)
       IN IF r.raised
          THEN /\ stderr' = Append(stderr, "Error calculating CPU-seconds")
               /\ exit_code' = 1
               /\ pc' = "exited"
               /\ UNCHANGED cpu_seconds
          ELSE /\ cpu_seconds' = r.twice
               /\ pc' = "calculated"
               /\ UNCHANGED <<stderr, exit_code>>
    /\ UNCHANGED <<harnessOnly, args, fs, results_dir, stdout, timestamps, values, warnings, error,
                   loadOnly, tableOnly>>

\* lines 131-146: print the report or the bare number and finish
Display ==
    /\ pc = "calculated"
    /\ stdout' = Append(stdout, IF args.verbose THEN "report" ELSE "result")
    /\ exit_code' = 0
    /\ pc' = "exited"
    /\ UNCHANGED <<harnessOnly, args, fs, results_dir, stderr, timestamps, values, warnings,
                   integOnly, loadOnly, tableOnly>>

MainNext == ResolveDir \/ PlotResolveDir \/ CheckLogFile \/ LoadData \/ Calculate \/ Display

SpecMain == MainInit /\ [][MainNext]_vars

(***************************************************************************)
(* plot.py load_results_directory.  logs maps each column to its log file  *)
(* in the results directory.  The lines used here have finite fields, so   *)
(* every index label is an ordinary number.                                *)
(***************************************************************************)
Columns == <<"cpu_usage", "cpu_time", "db_size", "package_counts", "package_buffer_counts">>
ColumnNames == {Columns[i] : i \in 1..Len(Columns)}

TableProcessLines ==
    {<<Num(1), Num(100), Num(1), Num(0)>>, <<Num(2), Num(100), Num(3), Num(0)>>,
     <<Num(3), Num(200), Num(1), Num(0)>>}

\* the lines each log can get: readings, a repeated timestamp by appending a
\* line twice, a lone timestamp, several summed fields
LinesOf(column) ==
    CASE column = "cpu_usage" ->
            {<<Num(1), Num(0)>>, <<Num(2), Num(7)>>, <<Num(3), Num(0)>>, <<Num(2)>>}
      [] column = "cpu_time" -> TableProcessLines
      [] column = "db_size" -> {<<Num(1), Num(0)>>, <<Num(2), Num(7)>>}
      [] column = "package_counts" -> {<<Num(1), Num(0)>>, <<Num(2), Num(7)>>, <<Num(2)>>}
      [] OTHER -> {<<Num(1), Num(0)>>, <<Num(2), Num(7), Num(7)>>}

\* lines 116-125: the loader of each column; sorted is the outcome of
\* sorted(all_timestamps) inside load_cpu_time_file
LoadColumn(column, lines, sorted) ==
    CASE column \in {"cpu_usage", "db_size"} -> load_single_value_file(lines)
      [] column = "cpu_time" ->
            [timestamps |-> sorted, values |-> CumulativeSeries(ParseCpuTime(lines), sorted)]
      [] OTHER -> load_comma_delimited_file(lines)

\* lines 129-132: the first file, in dictionary order, that does not exist
MissingLogs(lg) == {i \in 1..Len(Columns) : lg[Columns[i]].state = "missing"}

HasDuplicates(q) == \E i, j \in 1..Len(q) : i # j /\ q[i] = q[j]

\* the labels all five series share, as an inner join would keep
CommonLabels(all_data) ==
    {T \in UNION {{all_data[c].timestamps[i] : i \in 1..Len(all_data[c].timestamps)} :
                    c \in ColumnNames} :
        \A c \in ColumnNames :
            \E i \in 1..Len(all_data[c].timestamps) : all_data[c].timestamps[i] = T}

IndexLabels(all_data) ==
    UNION {{all_data[c].timestamps[i] : i \in 1..Len(all_data[c].timestamps)} :
             c \in ColumnNames}

\* line 142: the timestamps of cpu_usage, which the code names the
\* reference and never uses
reference_timestamps(all_data) == all_data["cpu_usage"].timestamps

\* line 154: the index pandas gives a frame built from a dict of Series: the
\* common index when all five are equal, else the sorted union of the labels
FrameIndex(all_data) ==
    IF \A c \in ColumnNames : all_data[c].timestamps = all_data["cpu_usage"].timestamps
    THEN all_data["cpu_usage"].timestamps
    ELSE SortedAsc(IndexLabels(all_data))

\* the cell of one Series at label T after alignment: its value there, NaN
\* (pandas' missing value) when it has no such label
Cell(series, T) ==
    IF \E i \in 1..Len(series.timestamps) : series.timestamps[i] = T
    THEN series.values[CHOOSE i \in 1..Len(series.timestamps) : series.timestamps[i] = T]
    ELSE NaN

NoFrame(err) ==
    [error |-> err, index |-> <<>>, columns |-> [c \in ColumnNames |-> <<>>]]

\* builds the frame without looking whether cpu_usage has data
BuildFrameUnchecked(all_data) ==
    LET index == FrameIndex(all_data)
    IN [error |-> "",
        index |-> index,
        columns |-> [c \in ColumnNames |->
                        [i \in 1..Len(index) |-> Cell(all_data[c], index[i])]]]

\* lines 136-156
BuildFrame(all_data) ==
    IF all_data["cpu_usage"].timestamps = <<>>
    THEN NoFrame("ValueError: No data found in cpu_usage.log")
    \* pd.Series(values, index=timestamps) wants as many values as labels
    ELSE IF \E c \in ColumnNames : Len(all_data[c].values) # Len(all_data[c].timestamps)
    THEN NoFrame("ValueError: length of values does not match length of index")
    \* a Series with a repeated label cannot be reindexed onto another index
    ELSE IF /\ \E c \in ColumnNames : HasDuplicates(all_data[c].timestamps)
            /\ \E c \in ColumnNames :
                  all_data[c].timestamps # all_data["cpu_usage"].timestamps
    THEN NoFrame("ValueError: cannot reindex on an axis with duplicate labels")
    ELSE LET index == FrameIndex(all_data)
         IN [error |-> "",
             index |-> index,
             columns |-> [c \in ColumnNames |->
                             [i \in 1..Len(index) |-> Cell(all_data[c], index[i])]]]

TableInit ==
    /\ logs = [c \in ColumnNames |-> NoLog]
    /\ df = [error |-> "idle"]
    /\ pc = "collecting"
    /\ timestamps = <<>>
    /\ values = <<>>
    /\ warnings = 0
    /\ IdleInteg /\ IdleLoad /\ IdleMain /\ IdleHarness

LinesInLogs == Len(logs["cpu_usage"].lines) + Len(logs["cpu_time"].lines)
               + Len(logs["db_size"].lines) + Len(logs["package_counts"].lines)
               + Len(logs["package_buffer_counts"].lines)

\* a log file appears in the results directory, still empty
CreateLog ==
    /\ pc = "collecting"
    /\ \E c \in ColumnNames :
          /\ logs[c].state = "missing"
          /\ logs' = [logs EXCEPT ![c] = [state |-> "ok", lines |-> <<>>]]
    /\ UNCHANGED <<harnessOnly, df, pc, timestamps, values, warnings, integOnly, loadOnly, mainOnly>>

\* a log file gets one more line
AppendLog ==
    /\ pc = "collecting"
    /\ LinesInLogs < MaxTableLines
    /\ \E c \in ColumnNames :
          /\ logs[c].state = "ok"
          /\ \E line \in LinesOf(c) :
                logs' = [logs EXCEPT ![c].lines = Append(@, line)]
    /\ UNCHANGED <<harnessOnly, df, pc, timestamps, values, warnings, integOnly, loadOnly, mainOnly>>

\* lines 112-156
LoadResultsDirectory ==
    /\ pc = "collecting"
    /\ IF MissingLogs(logs) # {}
       THEN df' = NoFrame("FileNotFoundError")
       ELSE \E sorted \in SortedOutcomes(all_timestamps(ParseCpuTime(logs["cpu_time"].lines)),
                                         NaNTimestampCount(ParseCpuTime(logs["cpu_time"].lines))) :
               df' = BuildFrame([c \in ColumnNames |-> LoadColumn(c, logs[c].lines, sorted)])
    /\ pc' = "loaded"
    /\ UNCHANGED <<harnessOnly, logs, timestamps, values, warnings, integOnly, loadOnly, mainOnly>>

TableNext == CreateLog \/ AppendLog \/ LoadResultsDirectory

SpecTable == TableInit /\ [][TableNext]_vars

\* the two programs that turn a results directory into an artifact: plot.py's
\* table and calculate_cpu_seconds.py's printed scalar
OutputsInit == TableInit \/ MainInit

OutputsNext == TableNext \/ MainNext

SpecOutputs == OutputsInit /\ [][OutputsNext]_vars

(***************************************************************************)
(* test_profiler.py test_profile_landscape_client: the sampling loop.      *)
(* Each iteration reads the clock, submits the five collectors to a pool   *)
(* of five threads and waits for them; a collector runs one remote command *)
(* that appends a record to its log.  The instances are created anew for   *)
(* every session, so the remote logs start out absent.  The clock is taken *)
(* not to be set back during the run.                                      *)
(***************************************************************************)
\* the collectors in the order they are submitted
Collectors ==
    <<"collect_client_cpu_usage", "collect_client_cpu_time",
      "collect_client_package_database_size", "collect_package_counts_for_client",
      "collect_package_buffer_counts_for_client">>

CollectorNames == {Collectors[k] : k \in 1..Len(Collectors)}

\* the remote log a collector appends to
LogOf(c) ==
    CASE c = "collect_client_cpu_usage" -> "cpu_usage"
      [] c = "collect_client_cpu_time" -> "cpu_time"
      [] c = "collect_client_package_database_size" -> "db_size"
      [] c = "collect_package_counts_for_client" -> "package_counts"
      [] OTHER -> "package_buffer_counts"

\* lets every collector finish without a record
AnyOutcome(c) == {"appended", "skipped", "lost", "failed"}

\* how a collector's future ends:
\*   "appended"  the command appended its record and exited 0;
\*   "skipped"   collect_client_cpu_time found no package reporter (lines
\*               84-92), wrote nothing, not even an empty file, and exited 0;
\*   "lost"      wc or psql failed at the head of the pipeline (lines 110-111,
\*               132-140, 163-177): awk or sed got no input and wrote nothing,
\*               the redirection left the file as it was or created it empty,
\*               and the pipeline exited 0, the status of its last command;
\*   "failed"    the command exited non-zero before writing, and check=True
\*               raised CalledProcessError.
\* collect_client_cpu_usage prints from awk's END block, so it writes its
\* record whenever it exits 0.
Outcomes(c) ==
    CASE c = "collect_client_cpu_usage" -> {"appended", "failed"}
      [] c = "collect_client_cpu_time" -> {"appended", "skipped", "failed"}
      [] OTHER -> {"appended", "lost", "failed"}

\* goes on as soon as the first future is done
FirstFinished(fut) == fut[Collectors[1]] # "running"

\* line 290: leaving the with block shuts the executor down with wait=True,
\* also when future.result() raised
AllFinished(fut) == \A c \in CollectorNames : fut[c] # "running"

\* drops the exceptions of the futures
NeverRaises(fut) == FALSE

\* lines 321-322: future.result() re-raises the collector's exception
Raises(fut) == \E c \in CollectorNames : fut[c] = "failed"

\* the last reading of the clock, 0 at start_time
LastReading ==
    IF elapsed_seconds = <<>> THEN 0 ELSE elapsed_seconds[Len(elapsed_seconds)]

ProfileInit ==
    /\ iterations \in 0..MaxIterations
    /\ iteration = 0
    /\ elapsed_seconds = <<>>
    /\ futures = <<>>
    /\ remote_logs = [l \in ColumnNames |-> <<>>]
    /\ pull_called = FALSE
    /\ params_written = FALSE
    /\ pc = "loop"
    /\ timestamps = <<>>
    /\ values = <<>>
    /\ warnings = 0
    /\ IdleInteg /\ IdleLoad /\ IdleMain /\ IdleTable /\ IdleRegister

\* lines 285-319: the next iteration reads the clock and submits the five
\* collectors, which start at once on the five workers
Dispatch ==
    /\ pc = "loop"
    /\ iteration < iterations
    /\ \E now \in LastReading..MaxElapsed :
          elapsed_seconds' = Append(elapsed_seconds, now)
    /\ futures' = Append(futures, [c \in CollectorNames |-> "running"])
    /\ pc' = "waiting"
    /\ UNCHANGED <<iterations, iteration, remote_logs, pull_called, params_written,
                   timestamps, values, warnings, integOnly, loadOnly, mainOnly,
                   tableOnly, registerOnly>>

\* lines 43-180: one collector's remote command ends
Collect ==
    /\ \E j \in 1..Len(futures), c \in CollectorNames :
          /\ futures[j][c] = "running"
          /\ \E o \in Outcomes(c) :
                /\ futures' = [futures EXCEPT ![j][c] = o]
                /\ remote_logs' =
                      IF o = "appended"
                      THEN [remote_logs EXCEPT ![LogOf(c)] = Append(@, elapsed_seconds[j])]
                      ELSE remote_logs
    /\ UNCHANGED <<iterations, iteration, elapsed_seconds, pull_called, params_written, pc,
                   timestamps, values, warnings, integOnly, loadOnly, mainOnly,
                   tableOnly, registerOnly>>

\* lines 320-322 and the end of the with block: the results are taken in
\* submission order and the executor is waited for; the first exception, if
\* any, then leaves the test
JoinAll ==
    /\ pc = "waiting"
    /\ AllFinished(futures[Len(futures)])
    /\ IF Raises(futures[Len(futures)])
       THEN pc' = "failed" /\ error' = "CalledProcessError"
       ELSE pc' = "sleeping" /\ UNCHANGED error
    /\ UNCHANGED <<loopOnly, timestamps, values, warnings, cpu_seconds, loadOnly,
                   mainOnly, tableOnly, registerOnly>>

\* line 324, then back to the head of the loop
Sleep ==
    /\ pc = "sleeping"
    /\ iteration' = iteration + 1
    /\ pc' = "loop"
    /\ UNCHANGED <<iterations, elapsed_seconds, futures, remote_logs, pull_called,
                   params_written, timestamps, values, warnings, integOnly, loadOnly,
                   mainOnly, tableOnly, registerOnly>>

\* the remote log of collector c exists: its redirection has run
RemoteLogExists(c) ==
    \E j \in 1..Len(futures) : futures[j][c] \in {"appended", "lost"}

\* lines 329-332 and 183-269: lxc file pull of the five logs, each with
\* check=True; a log whose redirection never ran does not exist on the
\* instance
PullResults ==
    /\ pc = "loop"
    /\ iteration = iterations
    /\ pull_called' = TRUE
    /\ IF \A c \in CollectorNames : RemoteLogExists(c)
       THEN pc' = "pulled" /\ UNCHANGED error
       ELSE pc' = "failed" /\ error' = "CalledProcessError"
    /\ UNCHANGED <<iterations, iteration, elapsed_seconds, futures, remote_logs, params_written,
                   timestamps, values, warnings, cpu_seconds, loadOnly, mainOnly,
                   tableOnly, registerOnly>>

\* lines 334-348
WriteParameters ==
    /\ pc = "pulled"
    /\ params_written' = TRUE
    /\ pc' = "passed"
    /\ UNCHANGED <<iterations, iteration, elapsed_seconds, futures, remote_logs, pull_called,
                   timestamps, values, warnings, integOnly, loadOnly, mainOnly,
                   tableOnly, registerOnly>>

ProfileNext == Dispatch \/ Collect \/ JoinAll \/ Sleep \/ PullResults \/ WriteParameters

SpecProfile == ProfileInit /\ [][ProfileNext]_vars

(***************************************************************************)
(* conftest.py register_landscape_client.                                  *)
(***************************************************************************)
\* exit statuses of landscape-config: 0, or a failure
ReturnCodes == {0, 1, 2}

\* retries whatever the attempt
AlwaysRetry(a, m) == TRUE

\* line 307: another attempt is left
MayRetry(a, m) == a < m - 1

RegisterInit ==
    /\ max_retries \in 0..MaxRetries
    /\ attempt = -1
    /\ returncodes = <<>>
    /\ pc = "for"
    /\ timestamps = <<>>
    /\ values = <<>>
    /\ warnings = 0
    /\ IdleInteg /\ IdleLoad /\ IdleMain /\ IdleTable /\ IdleLoop

\* line 281, for attempt in range(max_retries): the next attempt, or the
\* end of the range, after which the function returns None
NextAttempt ==
    /\ pc = "for"
    /\ IF attempt + 1 < max_retries
       THEN attempt' = attempt + 1 /\ pc' = "try"
       ELSE pc' = "returned" /\ UNCHANGED attempt
    /\ UNCHANGED <<max_retries, returncodes, timestamps, values, warnings, integOnly,
                   loadOnly, mainOnly, tableOnly, loopOnly>>

\* lines 282-305: subprocess.run(..., check=True), then return
RunLandscapeConfig ==
    /\ pc = "try"
    /\ \E rc \in ReturnCodes :
          /\ returncodes' = Append(returncodes, rc)
          /\ pc' = IF rc = 0 THEN "returned" ELSE "except"
    /\ UNCHANGED <<max_retries, attempt, timestamps, values, warnings, integOnly,
                   loadOnly, mainOnly, tableOnly, loopOnly>>

\* lines 306-313: retry after a pause, or give up on the last attempt
HandleFailure ==
    /\ pc = "except"
    /\ IF MayRetry(attempt, max_retries)
       THEN pc' = "for" /\ UNCHANGED error
       ELSE pc' = "raised" /\ error' = "RuntimeError"
    /\ UNCHANGED <<registerOnly, timestamps, values, warnings, cpu_seconds, loadOnly,
                   mainOnly, tableOnly, loopOnly>>

RegisterNext == NextAttempt \/ RunLandscapeConfig \/ HandleFailure

SpecRegister == RegisterInit /\ [][RegisterNext]_vars

(***************************************************************************)
(* Vocabulary of the properties: what the specification calls a valid      *)
(* line of each shape, and the samples such lines stand for.               *)
(***************************************************************************)
IsNumber(tok) == tok.k = "int"
AllNumbers(line) == \A i \in 1..Len(line) : IsNumber(line[i])

RequiredFields(ld) == IF ld = "cputime" THEN 4 ELSE 2

ValidLine(line, ld) ==
    /\ AllNumbers(line)
    /\ IF ld = "comma" THEN Len(line) >= 2 ELSE Len(line) = RequiredFields(ld)

FieldDeficient(line, ld) == ~IsBlank(line) /\ Len(line) < RequiredFields(ld)

ValidLines(f, ld) == SelectSeq(f, LAMBDA l : ValidLine(l, ld))

RECURSIVE SumNumbers(_, _)
SumNumbers(line, i) == IF i > Len(line) THEN 0 ELSE line[i].v + SumNumbers(line, i + 1)

SampleValue(line, ld) ==
    IF ld = "comma" THEN F(SumNumbers(line, 2)) ELSE F(line[2].v)

ExpectedTimestamps(f, ld) ==
    [i \in 1..Len(ValidLines(f, ld)) |-> F(ValidLines(f, ld)[i][1].v)]

ExpectedValues(f, ld) ==
    [i \in 1..Len(ValidLines(f, ld)) |-> SampleValue(ValidLines(f, ld)[i], ld)]

ValidLinesOfPid(f, pid) ==
    SelectSeq(f, LAMBDA l : ValidLine(l, "cputime") /\ l[2].v = pid)

ExpectedPidTimestamps(f, pid) ==
    [i \in 1..Len(ValidLinesOfPid(f, pid)) |-> F(ValidLinesOfPid(f, pid)[i][1].v)]

ExpectedPidTotals(f, pid) ==
    [i \in 1..Len(ValidLinesOfPid(f, pid)) |->
        F(ValidLinesOfPid(f, pid)[i][3].v + ValidLinesOfPid(f, pid)[i][4].v)]

SampleCount(pd) == Cardinality(TimestampSlots(pd))

AllFiniteSeq(q) == \A i \in 1..Len(q) : IsFinite(q[i])

\* every parsed process sample has a finite timestamp and a finite total
FiniteSamples(pd) ==
    \A i \in 1..Len(pd) : AllFiniteSeq(pd[i].timestamps) /\ AllFiniteSeq(pd[i].total_cpu)

Returned(ld) == loader = ld /\ pc = "returned"

(***************************************************************************)
(* Cumulative CPU time as the specification defines it.                    *)
(***************************************************************************)
\* the totals pid entry e reported at or before T
TotalsUpTo(e, T) ==
    {e.total_cpu[j] : j \in {k \in 1..Len(e.timestamps) : FLe(e.timestamps[k], T)}}

FMaxOf(S) == CHOOSE m \in S : \A x \in S : FLe(x, m)

\* sum over the pids seen up to T of the maximum they reported up to T
SumOfMaxima(pd, T) ==
    FSum([i \in 1..Len(pd) |->
            IF TotalsUpTo(pd[i], T) = {} THEN F(0) ELSE FMaxOf(TotalsUpTo(pd[i], T))],
         Len(pd))

\* the same with every pid's maximum taken over its totals above 0 only
\* (0 when it has none)
SumOfPositiveMaxima(pd, T) ==
    FSum([i \in 1..Len(pd) |->
            LET pos == {x \in TotalsUpTo(pd[i], T) : FGt(x, F(0))}
            IN IF pos = {} THEN F(0) ELSE FMaxOf(pos)],
         Len(pd))

RestartFile ==
    << <<Num(0), Num(100), Num(1), Num(0)>>,
       <<Num(5), Num(200), Num(2), Num(1)>>,
       <<Num(10), Num(200), Num(4), Num(1)>> >>

RestartSeriesOK ==
    file = RestartFile =>
        /\ timestamps = <<F(0), F(5), F(10)>>
        /\ values = <<F(1), F(4), F(6)>>

C2_CumulativeMonotone ==
    Returned("cputime") =>
        \A i, j \in 1..Len(timestamps) :
            FLt(timestamps[i], timestamps[j]) => FLe(values[i], values[j])

\* a pid's counter went down between two timestamps and both were emitted
C2_Witness ==
    /\ Returned("cputime")
    /\ Len(timestamps) >= 2
    /\ \E i \in 1..Len(pid_data) :
          /\ Len(pid_data[i].timestamps) >= 2
          /\ FLt(pid_data[i].timestamps[1], pid_data[i].timestamps[2])
          /\ FLt(pid_data[i].total_cpu[2], pid_data[i].total_cpu[1])

\* C3: a file of K valid lines mixed with blank and field-deficient lines
\* loads to exactly the K samples of the valid lines, in their order, in
\* every loader.
C3_MalformedLinesSkipped ==
    (\A i \in 1..Len(file) :
        \/ ValidLine(file[i], loader)
        \/ IsBlank(file[i])
        \/ FieldDeficient(file[i], loader))
    => IF loader = "cputime"
       THEN /\ SampleCount(pid_data) = Len(ValidLines(file, loader))
            /\ \A i \in 1..Len(pid_data) :
                  /\ pid_data[i].timestamps = ExpectedPidTimestamps(file, pid_data[i].pid)
                  /\ pid_data[i].total_cpu = ExpectedPidTotals(file, pid_data[i].pid)
       ELSE /\ timestamps = ExpectedTimestamps(file, loader)
            /\ values = ExpectedValues(file, loader)

\* a sentinel line: the bare token, or the token behind a timestamp as the
\* collectors write it
IsSentinelLine(line) ==
    \/ line = SentinelLine
    \/ Len(line) = 2 /\ IsNumber(line[1]) /\ line[2] = TokSentinel

\* C4: load_comma_delimited_file turns every empty-result sentinel line into
\* one sample of value 0.0; a file holding only the sentinel loads to a
\* single sample 0.0.
C4_SentinelIsZeroSample ==
    (Returned("comma") /\ \A i \in 1..Len(file) : IsSentinelLine(file[i]))
    => /\ Len(timestamps) = Len(file)
       /\ values = [i \in 1..Len(file) |-> F(0)]

\* C7: no loader ever holds a non-finite timestamp or value: lines whose
\* fields convert to NaN or to an infinity are skipped.
C7_OnlyFiniteSamples ==
    /\ AllFiniteSeq(timestamps)
    /\ AllFiniteSeq(values)
    /\ FiniteSamples(pid_data)

\* C8: a line with more fields than its shape has yields no sample in
\* load_single_value_file, load_cpu_usage_data and load_cpu_time_file.
C8_ExtraFieldsSkipped ==
    (/\ loader \in {"single", "usage", "cputime"}
     /\ \A i \in 1..Len(file) : Len(file[i]) > RequiredFields(loader))
    => /\ timestamps = <<>>
       /\ values = <<>>
       /\ pid_data = <<>>

\* C9: load_cpu_time_file emits exactly the distinct timestamps of the
\* parsed samples, once each, strictly ascending, one value per timestamp,
\* and the empty series when nothing was parsed.
C9_DistinctSortedTimestamps ==
    Returned("cputime") =>
        /\ {timestamps[i] : i \in 1..Len(timestamps)} =
              {pid_data[q[1]].timestamps[q[2]] : q \in TimestampSlots(pid_data)}
        /\ \A i, j \in 1..Len(timestamps) : i < j => FLt(timestamps[i], timestamps[j])
        /\ Len(values) = Len(timestamps)
        /\ (pid_data = <<>> => timestamps = <<>> /\ values = <<>>)

(***************************************************************************)
(* The integrator.                                                         *)
(***************************************************************************)
\* twice the sum over consecutive pairs of (v_i + v_{i+1}) / 2 * (t_{i+1} - t_i)
RECURSIVE TwiceTrapezoids(_, _, _)
TwiceTrapezoids(t, v, n) ==
    IF n < 2 THEN 0
    ELSE TwiceTrapezoids(t, v, n - 1)
         + (v[n - 1].v + v[n].v) * (t[n].v - t[n - 1].v)

\* C5: on n >= 2 points calculate_cpu_seconds returns the sum over the
\* consecutive pairs, in the given order, of (v_i + v_{i+1}) / 2 *
\* (t_{i+1} - t_i); [(0,0),(10,10)] and [(0,5),(10,5)] both give 50.
C5_TrapezoidalSum ==
    pc = "returned" =>
        /\ Len(timestamps) >= 2
        /\ cpu_seconds = F(TwiceTrapezoids(timestamps, values, Len(timestamps)))
        /\ (timestamps = <<F(0), F(10)>> /\ values = <<F(0), F(10)>>
                => cpu_seconds = F(2 * 50))
        /\ (timestamps = <<F(0), F(10)>> /\ values = <<F(5), F(5)>>
                => cpu_seconds = F(2 * 50))

\* the ramp [(0,0),(10,10)] has been integrated
C5_Witness ==
    /\ pc = "returned"
    /\ timestamps = <<F(0), F(10)>> /\ values = <<F(0), F(10)>>
    /\ cpu_seconds = F(100)

(***************************************************************************)
(* The command line.                                                       *)
(***************************************************************************)
\* the CPU-seconds results on standard output
ResultsPrinted == Len(SelectSeq(stdout, LAMBDA l : l \in {"result", "report"}))

\* the directory the command works on: the one given, else the one selected
ChosenDir == IF args.results_dir = "none" THEN results_dir ELSE args.results_dir

\* the samples cpu_usage.log of the chosen directory parses to; a log that
\* cannot be read yields none
ParsedSamples == Len(load_cpu_usage_data(fs.entries[ChosenDir].log.lines).timestamps)

\* the listed failures of the command: results root missing, no subdirectory in
\* it, cpu_usage.log missing from the chosen directory, zero samples, one
\* sample
ListedFailure ==
    \/ args.results_dir = "none" /\ ~fs.root_exists
    \/ args.results_dir = "none" /\ subdirs(fs) = {}
    \/ ~LogExists(fs, ChosenDir)
    \/ ParsedSamples = 0
    \/ ParsedSamples = 1

FailedCleanly == exit_code # 0 /\ stderr # <<>> /\ ResultsPrinted = 0

\* C6: the command fails (non-zero status, diagnostic on stderr, no result
\* on stdout) when the results root is missing or has no subdirectory, when
\* cpu_usage.log is missing from the chosen directory, and when it yields
\* zero samples or one sample; in every other case it prints exactly one
\* result.
C6_FailsExactlyInListedCases ==
    pc = "exited" =>
        IF args.results_dir = "none" /\ NoRecentResultsDir(fs)
        THEN FailedCleanly
        ELSE IF ListedFailure
        THEN FailedCleanly
        ELSE ResultsPrinted = 1 /\ exit_code = 0

\* the command has given up on a log of exactly one sample
C6_Witness ==
    /\ pc = "exited"
    /\ ChosenDir \in EntryNames
    /\ LogExists(fs, ChosenDir)
    /\ ParsedSamples = 1
    /\ exit_code = 1
    /\ stderr = <<"Error calculating CPU-seconds">>
    /\ stdout = <<>>

(***************************************************************************)
(* The aligned table.                                                      *)
(***************************************************************************)
\* the series of the five columns as their loaders return them (no NaN
\* timestamps occur in these logs, so cpu_time's timestamps are the
\* ascending list)
LoadedSeries ==
    LET sorted == SortedAsc(all_timestamps(ParseCpuTime(logs["cpu_time"].lines)))
    IN [c \in ColumnNames |-> LoadColumn(c, logs[c].lines, sorted)]

Labels(series) == {series.timestamps[i] : i \in 1..Len(series.timestamps)}

TableBuilt == pc = "loaded" /\ df.error = ""

TableAttempted == pc = "loaded" /\ df.error \notin {"idle", "FileNotFoundError"}

ZeroSamples(series) == series.timestamps = <<>> \/ series.values = <<>>

NoTable == df.error # "" /\ df.index = <<>>

\* the command has finished on a cpu_usage.log that parses to zero samples
CommandOnEmptyLog ==
    /\ pc = "exited"
    /\ ChosenDir \in EntryNames
    /\ LogExists(fs, ChosenDir)
    /\ ParsedSamples = 0

\* C11 as claimed: load_results_directory returns no table when any one of
\* the five logs parses to zero samples, and the calculate_cpu_seconds command
\* prints no result when cpu_usage.log parses to zero samples.
C11_AnyEmptyLogFails ==
    /\ TableAttempted =>
          ((\E c \in ColumnNames : ZeroSamples(LoadedSeries[c])) => NoTable)
    /\ CommandOnEmptyLog => ResultsPrinted = 0 /\ exit_code # 0

\* C11 amended: only cpu_usage.log is required to hold samples.
\* load_results_directory returns no table when cpu_usage.log parses to zero
\* samples, and raises "No data found" exactly when it yields no timestamp;
\* a table it builds while another log is empty has that column absent in
\* every row.  The command prints no result on an empty cpu_usage.log.
C11_EmptyCpuUsageFails ==
    /\ TableAttempted =>
          LET series == LoadedSeries
          IN /\ ZeroSamples(series["cpu_usage"]) => NoTable
             /\ df.error = "ValueError: No data found in cpu_usage.log"
                   <=> series["cpu_usage"].timestamps = <<>>
             /\ \A c \in ColumnNames :
                   df.error = "" /\ series[c] = EmptyAcc
                       => \A i \in 1..Len(df.index) : df.columns[c][i] = NaN
    /\ CommandOnEmptyLog => ResultsPrinted = 0 /\ exit_code # 0

\* cpu_usage.log is there but empty while db_size.log has a sample: no table
C11_Witness ==
    /\ TableAttempted
    /\ logs["cpu_usage"].lines = <<>>
    /\ logs["db_size"].lines = << <<Num(2), Num(7)>> >>
    /\ df = NoFrame("ValueError: No data found in cpu_usage.log")

(***************************************************************************)
(* Insufficient samples.                                                   *)
(***************************************************************************)
\* C12: calculate_cpu_seconds fails with the insufficient-data error, and
\* returns no scalar, whenever it is called with fewer than 2 samples (0 or
\* 1), and never when it is called with 2 or more.
C12_FailsBelowTwoSamples ==
    [][pc = "called" =>
          IF Len(timestamps) < 2
          THEN pc' = "raised" /\ error' = "ValueError" /\ cpu_seconds' = cpu_seconds
          ELSE pc' = "returned" /\ error' = ""]_vars

\* the call with exactly one sample has raised
C12_Witness ==
    /\ pc = "raised"
    /\ Len(timestamps) = 1 /\ Len(values) = 1
    /\ error = "ValueError"
    /\ cpu_seconds = F(0)

(***************************************************************************)
(* The run selector.                                                       *)
(***************************************************************************)
\* either program is past its choice of the results directory
DirSettled == pc \notin {"start", "plot_start"}

IsDir(d) == fs.entries[d].kind = "dir"

\* C13: with no directory given, both copies of get_most_recent_results_dir
\* return a subdirectory of results/ whose modification time is at least that
\* of every other subdirectory, never an entry that is not a directory, and
\* fail with the not-found error when results/ is missing or holds no
\* subdirectory; with a directory given the selector is not consulted.
C13_MostRecentSubdirectory ==
    DirSettled =>
        IF args.results_dir = "none"
        THEN IF ~fs.root_exists \/ \A d \in EntryNames : ~IsDir(d)
             THEN /\ results_dir = "none"
                  /\ pc = "exited"
                  /\ stderr = <<"Traceback: FileNotFoundError">>
             ELSE /\ results_dir \in EntryNames
                  /\ IsDir(results_dir)
                  /\ \A e \in EntryNames :
                        IsDir(e) => fs.entries[e].mtime <= fs.entries[results_dir].mtime
        ELSE /\ results_dir \in {args.results_dir, "none"}
             /\ \A i \in 1..Len(stderr) : stderr[i] # "Traceback: FileNotFoundError"

\* the older directory was selected although a plain file next to it is newer
C13_Witness ==
    /\ pc \in {"resolved", "plot_resolved"}
    /\ args.results_dir = "none"
    /\ results_dir = "a"
    /\ fs.entries["a"].kind = "dir" /\ fs.entries["a"].mtime = 1
    /\ fs.entries["b"] = NewerFileEntry

(***************************************************************************)
(* Order of the points.                                                    *)
(***************************************************************************)
DistinctTimes(t) == \A i, j \in 1..Len(t) : i # j => t[i] # t[j]

Ascending(t) == \A i \in 1..(Len(t) - 1) : t[i].v < t[i + 1].v

Descending(t) == \A i \in 1..(Len(t) - 1) : t[i].v > t[i + 1].v

\* the position, in a series of distinct timestamps t, of the k-th earliest
EarliestAt(t, k) ==
    CHOOSE i \in 1..Len(t) : Cardinality({j \in 1..Len(t) : t[j].v < t[i].v}) = k - 1

\* the list q of the series rearranged into the time order of t
TimeOrdered(t, q) == [k \in 1..Len(t) |-> q[EarliestAt(t, k)]]

\* twice the integral of the same points in time order
TwiceTimeOrdered ==
    TwiceTrapezoids(TimeOrdered(timestamps, timestamps),
                    TimeOrdered(timestamps, values), Len(timestamps))

\* C14 as claimed: the same points fed out of time order yield a result
\* different from the time-ordered one.
C14_OutOfOrderDiffers ==
    pc = "returned" /\ DistinctTimes(timestamps) /\ ~Ascending(timestamps)
        => cpu_seconds # F(TwiceTimeOrdered)

\* C14 amended: the integrator does not re-sort, it sums the consecutive
\* pairs in the order given; points fed in reverse time order yield the
\* negation of the time-ordered result, which differs from it exactly when
\* that result is not 0: [(10,10),(0,0)] yields -50, not the 50 of
\* [(0,0),(10,10)], while [(10,0),(0,0)] yields 0 like [(0,0),(10,0)].
C14_ReversedOrderNegates ==
    pc = "returned" =>
        /\ cpu_seconds = F(TwiceTrapezoids(timestamps, values, Len(timestamps)))
        /\ Descending(timestamps) =>
              /\ cpu_seconds = F(0 - TwiceTimeOrdered)
              /\ cpu_seconds # F(TwiceTimeOrdered) <=> TwiceTimeOrdered # 0
        /\ (timestamps = <<F(10), F(0)>> /\ values = <<F(10), F(0)>>
                => cpu_seconds = F(0 - 2 * 50) /\ TwiceTimeOrdered = 2 * 50)
        /\ (timestamps = <<F(10), F(0)>> /\ values = <<F(0), F(0)>>
                => cpu_seconds = F(0) /\ TwiceTimeOrdered = 0)

\* the ramp fed backwards has been integrated to -50
C14_Witness ==
    /\ pc = "returned"
    /\ timestamps = <<F(10), F(0)>> /\ values = <<F(10), F(0)>>
    /\ cpu_seconds = F(0 - 100)

(***************************************************************************)
(* Alignment modes.                                                        *)
(***************************************************************************)
\* the list 0, 1, ..., n - 1 of row positions
Positions(n) == [i \in 1..n |-> F(i - 1)]

EqualLengths(series) ==
    \A c, d \in ColumnNames : Len(series[c].timestamps) = Len(series[d].timestamps)

LengthError == "ValueError: length of values does not match length of index"

IterationEnded(j) ==
    /\ j \in 1..Len(futures)
    /\ j = Len(futures) => pc # "waiting"

Appended(j, c) == futures[j][c] = "appended"

CollectorFailed(j) == \E c \in CollectorNames : futures[j][c] = "failed"

\* the records collector c has appended over the whole run
RecordsOf(c) == Cardinality({j \in 1..Len(futures) : Appended(j, c)})

\* C16 as claimed: an iteration is atomic: once it has ended, normally or by
\* a failure, either all five of its collectors have appended their record
\* or none has; a failing collector leaves no record of the others.
C16_IterationAtomic ==
    \A j \in 1..Len(futures) :
        IterationEnded(j) =>
            \/ \A c \in CollectorNames : Appended(j, c)
            \/ \A c \in CollectorNames : ~Appended(j, c)

\* C16 amended: nothing is undone.  An iteration that ends normally has
\* appended one record to cpu_usage and at most one to each of cpu_time,
\* db_size, package_counts and package_buffer_counts; an iteration ended by
\* a failing collector keeps the records of its other collectors in the
\* remote logs, is the last one of the run, and its logs are never pulled.
C16_NoRollback ==
    /\ \A j \in 1..Len(futures) :
          IterationEnded(j) =>
              IF CollectorFailed(j)
              THEN j = Len(futures) /\ pc = "failed" /\ ~pull_called
              ELSE /\ Appended(j, "collect_client_cpu_usage")
                   /\ \A c \in CollectorNames : futures[j][c] # "running"
    /\ \A c \in CollectorNames : Len(remote_logs[LogOf(c)]) = RecordsOf(c)

\* the first iteration ended by the failure of collect_client_cpu_usage, and
\* the records of the other four collectors are in their logs
C16_Witness ==
    /\ pc = "failed"
    /\ Len(futures) = 1
    /\ futures[1]["collect_client_cpu_usage"] = "failed"
    /\ \A c \in CollectorNames \ {"collect_client_cpu_usage"} : Appended(1, c)
    /\ remote_logs["cpu_usage"] = <<>>
    /\ Len(remote_logs["db_size"]) = 1
    /\ Len(remote_logs["cpu_time"]) = 1

NonDecreasing(q) == \A k \in 1..(Len(q) - 1) : q[k] <= q[k + 1]

LineValueOf(line, ld) ==
    IF ld = "comma" THEN SumFields(line, 2)
    ELSE IF Len(line) >= 2 THEN ParseFloat(line[2])
    ELSE Err

\* the k-th smallest number of the set S
KthOf(S, k) == CHOOSE n \in S : Cardinality({m \in S : m < n}) = k - 1

\* the two lists come, position by position, from the same lines of the
\* file, taken in file order
FromSameLines(ld) ==
    \E S \in SUBSET (1..Len(file)) :
        /\ Cardinality(S) = Len(timestamps)
        /\ \A k \in 1..Len(timestamps) :
              /\ timestamps[k] = ParseFloat(file[KthOf(S, k)][1])
              /\ values[k] = LineValueOf(file[KthOf(S, k)], ld)

\* C19: every loader returns timestamps and values of equal length, and
\* position i of both comes from the same input line (for load_cpu_time_file:
\* the value at position i is the cumulative total at timestamp i, which is
\* the timestamp of some line), also for files with lines whose first field
\* parses while the second is missing or not a number.
C19_ListsAligned ==
    /\ \A ld \in {"single", "comma", "usage"} :
          Returned(ld) =>
              /\ Len(timestamps) = Len(values)
              /\ FromSameLines(ld)
    /\ Returned("cputime") =>
          /\ Len(timestamps) = Len(values)
          /\ \A k \in 1..Len(timestamps) :
                /\ \E n \in 1..Len(file) : ParseFloat(file[n][1]) = timestamps[k]
                /\ values[k] = cumulative_total(pid_data, timestamps[k])

(***************************************************************************)
(* Registration retries.                                                   *)
(***************************************************************************)
AllAttemptsFailed == \A k \in 1..Len(returncodes) : returncodes[k] # 0

\* C20 as claimed: for every max_retries >= 0 and every sequence of attempt
\* outcomes, register_landscape_client makes at most max_retries attempts and none
\* after the first success, raises RuntimeError exactly when max_retries
\* attempts have all failed, and never returns normally without a successful
\* attempt.
C20_RetriesBounded ==
    /\ Len(returncodes) <= max_retries
    /\ \A k \in 1..(Len(returncodes) - 1) : returncodes[k] # 0
    /\ pc \in {"returned", "raised"} =>
          (pc = "raised" <=> Len(returncodes) = max_retries /\ AllAttemptsFailed)
    /\ pc = "raised" => error = "RuntimeError"
    /\ pc = "returned" => ~AllAttemptsFailed

\* C20 amended: the same for every max_retries >= 1; with max_retries = 0
\* the function makes no attempt and returns normally.
C20_RetriesBoundedFromOne ==
    /\ Len(returncodes) <= max_retries
    /\ \A k \in 1..(Len(returncodes) - 1) : returncodes[k] # 0
    /\ pc \in {"returned", "raised"} =>
          IF max_retries >= 1
          THEN /\ pc = "raised" <=> Len(returncodes) = max_retries /\ AllAttemptsFailed
               /\ pc = "raised" => error = "RuntimeError"
               /\ pc = "returned" => ~AllAttemptsFailed
          ELSE pc = "returned" /\ returncodes = <<>> /\ error = ""

\* three attempts out of three have failed and RuntimeError was raised
C20_Witness ==
    /\ pc = "raised"
    /\ max_retries = 3
    /\ returncodes = <<1, 2, 1>>
    /\ error = "RuntimeError"

(***************************************************************************)
(* Record counts.                                                          *)
(***************************************************************************)
\* every collector command so far has exited 0
EveryCommandSucceeded ==
    \A j \in 1..Len(futures) : \A c \in CollectorNames : futures[j][c] # "failed"

\* the elapsed_seconds of the iterations in which collector c wrote a record
RECURSIVE StampsOf(_, _)
StampsOf(c, n) ==
    IF n = 0 THEN <<>>
    ELSE IF Appended(n, c)
         THEN Append(StampsOf(c, n - 1), elapsed_seconds[n])
         ELSE StampsOf(c, n - 1)

\* C21: in a run that starts with empty remote logs and in which every
\* collector command succeeds, after N iterations cpu_usage.log, db_size.log,
\* package_counts.log and package_buffer_counts.log hold exactly N records
\* each and cpu_time.log at most N (one for an iteration only if a reporter
\* pid existed then); all records of an iteration carry its elapsed_seconds,
\* so every timestamp of cpu_time.log occurs in cpu_usage.log.
C21_RecordCounts ==
    EveryCommandSucceeded /\ pc # "waiting" =>
        LET N == Len(futures)
        IN /\ \A l \in ColumnNames \ {"cpu_time"} :
                 Len(remote_logs[l]) = N /\ remote_logs[l] = elapsed_seconds
           /\ Len(remote_logs["cpu_time"]) <= N
           /\ remote_logs["cpu_time"] = StampsOf("collect_client_cpu_time", N)
           /\ \A k \in 1..Len(remote_logs["cpu_time"]) :
                 \E n \in 1..Len(remote_logs["cpu_usage"]) :
                     remote_logs["cpu_usage"][n] = remote_logs["cpu_time"][k]

====
